---- MODULE Spec2Model ----
(***************************************************************************)
(* Turn-resolution engine of the slug dungeon (src/d_stuck_a2.py):         *)
(* Weapon, Tile, Entity, Slug kinds and SlugDungeonModel.                  *)
(*                                                                         *)
(* Positions are pairs <<row, col>> with Python's 0-based indices.  The    *)
(* slug dictionary is an insertion-ordered sequence of [key, value]        *)
(* entries; `del` keeps the order of the rest, and assigning a new key     *)
(* appends.  Every slug carries an `id` standing for Python object         *)
(* identity (Slug defines no __eq__), every weapon a `wid`.                *)
(***************************************************************************)
EXTENDS Integers, Sequences, FiniteSets, TLC

VARIABLES level, tiles, slugs, player, player_position, turns, last

vars == <<level, tiles, slugs, player, player_position, turns, last>>

\* Bound on the number of accepted moves explored from level start.
MaxTurns == 10

Min(a, b) == IF a <= b THEN a ELSE b
Max(a, b) == IF a >= b THEN a ELSE b

(***************************************************************************)
(* Weapon                                                                  *)
(***************************************************************************)
WALL_TILE == "#"
FLOOR_TILE == " "
GOAL_TILE == "G"

\* Entity._weapon = None / Tile._weapon = None
None == [name |-> "None", effect |-> << >>, range |-> 0, wid |-> 0]

PoisonDart(wid) ==
    [name |-> "PoisonDart",
     effect |-> <<[kind |-> "poison", value |-> 2]>>,
     range |-> 2, wid |-> wid]

PoisonSword(wid) ==
    [name |-> "PoisonSword",
     effect |-> <<[kind |-> "damage", value |-> 2], [kind |-> "poison", value |-> 1]>>,
     range |-> 1, wid |-> wid]

HealingRock(wid) ==
    [name |-> "HealingRock",
     effect |-> <<[kind |-> "healing", value |-> 2]>>,
     range |-> 2, wid |-> wid]

\* Weapon.get_targets: for i in 1..range append down, up, right, left.
RECURSIVE TargetsFrom(_, _, _)
TargetsFrom(position, i, range) ==
    IF i > range THEN << >>
    ELSE <<  <<position[1] + i, position[2]>>,
             <<position[1] - i, position[2]>>,
             <<position[1], position[2] + i>>,
             <<position[1], position[2] - i>>  >>
         \o TargetsFrom(position, i + 1, range)

\* Variant of get_targets that drops the positions with a negative index.
get_targets_Clipped(weapon, position) ==
    SelectSeq(TargetsFrom(position, 1, weapon.range),
              LAMBDA t : t[1] >= 0 /\ t[2] >= 0)

get_targets(weapon, position) == TargetsFrom(position, 1, weapon.range)

get_effect(weapon) == weapon.effect

(***************************************************************************)
(* Tile                                                                    *)
(***************************************************************************)
Tile(symbol, is_blocking) ==
    [symbol |-> symbol, is_blocking |-> is_blocking, weapon |-> None]

set_weapon(tile, weapon) == [tile EXCEPT !.weapon = weapon]

remove_weapon(tile) == [tile EXCEPT !.weapon = None]

(***************************************************************************)
(* Entity, Player, Slug                                                    *)
(***************************************************************************)
Entity(max_health) ==
    [name |-> "Entity", max_health |-> max_health, health |-> max_health,
     poison |-> 0, weapon |-> None]

Player(max_health) == [Entity(max_health) EXCEPT !.name = "Player"]

equip(entity, weapon) == [entity EXCEPT !.weapon = weapon]

get_weapon_targets(entity, position) ==
    IF entity.weapon # None THEN get_targets(entity.weapon, position) ELSE << >>

get_weapon_effect(entity) ==
    IF entity.weapon # None THEN get_effect(entity.weapon) ELSE << >>

\* Variant of the loop body whose healing forgets the min() with max_health.
apply_effect_NoCap(entity, effect) ==
    IF effect.kind = "healing"
      THEN [entity EXCEPT !.health = entity.health + effect.value]
    ELSE IF effect.kind = "damage"
      THEN [entity EXCEPT !.health = Max(0, entity.health - effect.value)]
    ELSE IF effect.kind = "poison"
      THEN [entity EXCEPT !.poison = entity.poison + effect.value]
    ELSE entity

\* One iteration of the loop of Entity.apply_effects.
apply_effect(entity, effect) ==
    IF effect.kind = "healing"
      THEN [entity EXCEPT !.health = Min(entity.max_health, entity.health + effect.value)]
    ELSE IF effect.kind = "damage"
      THEN [entity EXCEPT !.health = Max(0, entity.health - effect.value)]
    ELSE IF effect.kind = "poison"
      THEN [entity EXCEPT !.poison = entity.poison + effect.value]
    ELSE entity

RECURSIVE apply_effects(_, _)
apply_effects(entity, effects) ==
    IF effects = << >> THEN entity
    ELSE apply_effects(apply_effect(entity, Head(effects)), Tail(effects))

\* Variant of apply_poison that decrements the poison before it damages.
apply_poison_DecrementFirst(entity) ==
    IF entity.poison > 0
      THEN [entity EXCEPT !.health = Max(0, entity.health - (entity.poison - 1)),
                          !.poison = entity.poison - 1]
      ELSE entity

\* Variant of apply_poison that damages and never decrements the poison.
apply_poison_NoDecrement(entity) ==
    IF entity.poison > 0
      THEN [entity EXCEPT !.health = Max(0, entity.health - entity.poison)]
      ELSE entity

apply_poison(entity) ==
    IF entity.poison > 0
      THEN [entity EXCEPT !.health = Max(0, entity.health - entity.poison),
                          !.poison = entity.poison - 1]
      ELSE entity

is_alive(entity) == entity.health > 0

\* Slug.__init__: an Entity with _can_move = True.
Slug(max_health, id) ==
    [name |-> "Slug", max_health |-> max_health, health |-> max_health,
     poison |-> 0, weapon |-> None, can_move |-> TRUE, id |-> id]

can_move(slug) == slug.can_move

slug_end_turn(slug) == [slug EXCEPT !.can_move = ~slug.can_move]

NiceSlug(id) ==
    [equip(Slug(10, id), HealingRock(id)) EXCEPT !.name = "NiceSlug"]

AngrySlug(id) ==
    [equip(Slug(5, id), PoisonSword(id)) EXCEPT !.name = "AngrySlug"]

ScaredSlug(id) ==
    [equip(Slug(3, id), PoisonDart(id)) EXCEPT !.name = "ScaredSlug"]

SquaredDistance(p, q) ==
    (p[1] - q[1]) * (p[1] - q[1]) + (p[2] - q[2]) * (p[2] - q[2])

\* Variant of IndexOfMin that yields the last index holding the least value.
IndexOfMin_Last(coordinates, player_pos) ==
    CHOOSE i \in 1..Len(coordinates) :
        /\ \A j \in 1..Len(coordinates) :
              SquaredDistance(player_pos, coordinates[i])
                <= SquaredDistance(player_pos, coordinates[j])
        /\ \A j \in (i + 1)..Len(coordinates) :
              SquaredDistance(player_pos, coordinates[j])
                > SquaredDistance(player_pos, coordinates[i])

\* distance.index(min(distance)): the first index holding the least value.
IndexOfMin(coordinates, player_pos) ==
    CHOOSE i \in 1..Len(coordinates) :
        /\ \A j \in 1..Len(coordinates) :
              SquaredDistance(player_pos, coordinates[i])
                <= SquaredDistance(player_pos, coordinates[j])
        /\ \A j \in 1..(i - 1) :
              SquaredDistance(player_pos, coordinates[j])
                > SquaredDistance(player_pos, coordinates[i])

\* distance.index(max(distance)): the first index holding the greatest value.
IndexOfMax(coordinates, player_pos) ==
    CHOOSE i \in 1..Len(coordinates) :
        /\ \A j \in 1..Len(coordinates) :
              SquaredDistance(player_pos, coordinates[i])
                >= SquaredDistance(player_pos, coordinates[j])
        /\ \A j \in 1..(i - 1) :
              SquaredDistance(player_pos, coordinates[j])
                < SquaredDistance(player_pos, coordinates[i])

choose_move(slug, coordinates, current_position, player_pos) ==
    IF slug.name = "NiceSlug" THEN current_position
    ELSE IF coordinates = << >> THEN current_position
    ELSE IF slug.name = "AngrySlug"
      THEN coordinates[IndexOfMin(coordinates, player_pos)]
    ELSE coordinates[IndexOfMax(coordinates, player_pos)]

(***************************************************************************)
(* dict[Position, Slug]: insertion-ordered entries [key, value]            *)
(***************************************************************************)
DictKeys(d) == {d[i].key : i \in 1..Len(d)}

DictHas(d, k) == k \in DictKeys(d)

DictGet(d, k) == d[CHOOSE i \in 1..Len(d) : d[i].key = k].value

\* del d[k]
DictDel(d, k) == SelectSeq(d, LAMBDA e : e.key # k)

\* d[k] = v: replaces the value of an existing key in place, appends a new key.
DictSet(d, k, v) ==
    IF DictHas(d, k)
      THEN [i \in 1..Len(d) |-> IF d[i].key = k THEN [key |-> k, value |-> v] ELSE d[i]]
      ELSE Append(d, [key |-> k, value |-> v])

\* slug.method() on the object held by the dictionary (objects are shared by
\* reference between the dictionary and any list(d.items()) snapshot).
DictMutate(d, id, new) ==
    [i \in 1..Len(d) |-> IF d[i].value.id = id THEN [key |-> d[i].key, value |-> new] ELSE d[i]]

(***************************************************************************)
(* SlugDungeonModel.  A model value m holds the fields _tiles, _slugs      *)
(* (_activeslugs is the same dictionary object), _player and               *)
(* _player_position; `error` records that an exception has propagated and  *)
(* `moves` logs the choose_move calls of the movement loop.                *)
(***************************************************************************)
SlugDungeonModel(t, s, p, pos) ==
    [tiles |-> t, slugs |-> s, player |-> p, player_position |-> pos,
     error |-> FALSE, moves |-> << >>]

NumRows(t) == Cardinality(DOMAIN t)
NumCols(t) == Cardinality(DOMAIN t[0])

InBounds(t, pos) ==
    /\ 0 <= pos[1] /\ pos[1] < NumRows(t)
    /\ 0 <= pos[2] /\ pos[2] < NumCols(t)

get_tile(m, position) == m.tiles[position[1]][position[2]]

get_slugs(m) == m.slugs

\* The loop `for key, value in self._slugs.items(): if value == slug`.
Located(m, slug) == \E i \in 1..Len(m.slugs) : m.slugs[i].value.id = slug.id

KeyOf(m, slug) ==
    m.slugs[CHOOSE i \in 1..Len(m.slugs) : m.slugs[i].value.id = slug.id].key

PossibleMoves(pos) ==
    << <<pos[1] - 1, pos[2]>>, <<pos[1] + 1, pos[2]>>,
       <<pos[1], pos[2] - 1>>, <<pos[1], pos[2] + 1>> >>

\* Variant of the filter that forgets the `move != self._player_position` test.
IsValidSlugMove_NoPlayerTest(m, move) ==
    /\ InBounds(m.tiles, move)
    /\ ~get_tile(m, move).is_blocking
    /\ ~DictHas(m.slugs, move)

\* Variant of the filter that forgets the `move not in self._slugs.keys()` test.
IsValidSlugMove_NoSlugTest(m, move) ==
    /\ InBounds(m.tiles, move)
    /\ ~get_tile(m, move).is_blocking
    /\ move # m.player_position

IsValidSlugMove(m, move) ==
    /\ InBounds(m.tiles, move)
    /\ ~get_tile(m, move).is_blocking
    /\ ~DictHas(m.slugs, move)
    /\ move # m.player_position

get_valid_slug_positions(m, slug) ==
    IF can_move(slug) = FALSE THEN << >>
    ELSE <<KeyOf(m, slug)>>
         \o SelectSeq(PossibleMoves(KeyOf(m, slug)), LAMBDA move : IsValidSlugMove(m, move))

\* Variant of the loop body that forgets the slug.apply_poison() after the
\* weapon's effect.
AttackTarget_NoDecay(m, weapon_effect, target_position) ==
    IF m.error \/ ~DictHas(m.slugs, target_position) THEN m
    ELSE LET slug == apply_effects(DictGet(m.slugs, target_position), weapon_effect)
             hit  == DictSet(m.slugs, target_position, slug)
         IN  IF ~is_alive(slug)
               THEN [m EXCEPT
                       !.tiles[target_position[1]][target_position[2]] =
                           set_weapon(@, slug.weapon),
                       !.slugs = DictDel(hit, target_position)]
               ELSE [m EXCEPT !.slugs = hit]

\* Variant of AttackTarget that deletes a dead slug and drops no weapon.
AttackTarget_NoDrop(m, weapon_effect, target_position) ==
    IF m.error \/ ~DictHas(m.slugs, target_position) THEN m
    ELSE LET slug == apply_poison(apply_effects(DictGet(m.slugs, target_position), weapon_effect))
             hit  == DictSet(m.slugs, target_position, slug)
         IN  IF ~is_alive(slug)
               THEN [m EXCEPT !.slugs = DictDel(hit, target_position)]
               ELSE [m EXCEPT !.slugs = hit]

\* Body of the loop over target_positions in the Player branch of perform_attack.
AttackTarget(m, weapon_effect, target_position) ==
    IF m.error \/ ~DictHas(m.slugs, target_position) THEN m
    ELSE LET slug == apply_poison(apply_effects(DictGet(m.slugs, target_position), weapon_effect))
             hit  == DictSet(m.slugs, target_position, slug)
         IN  IF ~is_alive(slug)
               THEN [m EXCEPT
                       !.tiles[target_position[1]][target_position[2]] =
                           set_weapon(@, slug.weapon),
                       !.slugs = DictDel(hit, target_position)]
               ELSE [m EXCEPT !.slugs = hit]

RECURSIVE AttackTargets(_, _, _)
AttackTargets(m, weapon_effect, target_positions) ==
    IF target_positions = << >> THEN m
    ELSE AttackTargets(AttackTarget(m, weapon_effect, Head(target_positions)),
                       weapon_effect, Tail(target_positions))

InSeq(x, s) == \E i \in 1..Len(s) : s[i] = x

\* Variant of perform_attack in which an unarmed player strikes the four
\* adjacent positions for 1 damage.
perform_attack_BareHands(m, entity, position) ==
    IF get_weapon_effect(entity) = << >>
      THEN IF entity.name = "Player"
             THEN AttackTargets(m, <<[kind |-> "damage", value |-> 1]>>,
                                TargetsFrom(position, 1, 1))
             ELSE m
    ELSE IF entity.name = "Player"
      THEN AttackTargets(m, get_weapon_effect(entity), get_weapon_targets(entity, position))
    ELSE IF InSeq(m.player_position, get_weapon_targets(entity, position))
      THEN [m EXCEPT !.player = apply_effects(@, get_weapon_effect(entity))]
    ELSE m

perform_attack(m, entity, position) ==
    IF get_weapon_effect(entity) = << >> THEN m
    ELSE IF entity.name = "Player"
      THEN AttackTargets(m, get_weapon_effect(entity), get_weapon_targets(entity, position))
    ELSE IF InSeq(m.player_position, get_weapon_targets(entity, position))
      THEN [m EXCEPT !.player = apply_effects(@, get_weapon_effect(entity))]
    ELSE m

(***************************************************************************)
(* end_turn, phase by phase                                                *)
(***************************************************************************)
\* self._player.apply_poison()
EndTurnPlayerPoison(m) == [m EXCEPT !.player = apply_poison(@)]

\* The object a snapshot entry refers to, in its current state.
Current(m, slug) ==
    IF Located(m, slug) THEN DictGet(m.slugs, KeyOf(m, slug)) ELSE slug

\* Variant of the poison pass that drops the dead slug's weapon but forgets
\* the `del`.
RECURSIVE SlugPoisonLoop_NoDel(_, _)
SlugPoisonLoop_NoDel(m, snapshot) ==
    IF snapshot = << >> \/ m.error THEN m
    ELSE LET position == Head(snapshot).key
             slug     == apply_poison(Current(m, Head(snapshot).value))
             m1       == [m EXCEPT !.slugs = DictMutate(@, slug.id, slug)]
         IN  IF ~is_alive(slug)
               THEN [m1 EXCEPT
                       !.tiles[position[1]][position[2]] = set_weapon(@, slug.weapon)]
               ELSE SlugPoisonLoop_NoDel(m1, Tail(snapshot))

\* for position, slug in list(self._slugs.items()): apply_poison; if dead:
\* set_weapon, del, break.
RECURSIVE SlugPoisonLoop(_, _)
SlugPoisonLoop(m, snapshot) ==
    IF snapshot = << >> \/ m.error THEN m
    ELSE LET position == Head(snapshot).key
             slug     == apply_poison(Current(m, Head(snapshot).value))
             m1       == [m EXCEPT !.slugs = DictMutate(@, slug.id, slug)]
         IN  IF ~is_alive(slug)
               THEN IF DictHas(m1.slugs, position)
                      THEN [m1 EXCEPT
                              !.tiles[position[1]][position[2]] = set_weapon(@, slug.weapon),
                              !.slugs = DictDel(@, position)]
                      ELSE [m1 EXCEPT !.error = TRUE]
               ELSE SlugPoisonLoop(m1, Tail(snapshot))

EndTurnSlugPoison(m) == SlugPoisonLoop(m, m.slugs)

\* self._slugs[new_position] = self._slugs.pop(position)
\* Variant of Relocate that stores the slug under the new key and keeps the
\* old entry.
Relocate_NoPop(m, slug, position, valid_moves, new_position) ==
    IF ~DictHas(m.slugs, position) THEN [m EXCEPT !.error = TRUE]
    ELSE [m EXCEPT
            !.slugs = DictSet(@, new_position, DictGet(@, position)),
            !.moves = Append(@, [id |-> slug.id, from |-> position,
                                 valid_moves |-> valid_moves, to |-> new_position])]

\* Variant of Relocate in which a slug arriving on a tile that holds a
\* weapon equips it and clears the tile, as the player does.
Relocate_Pickup(m, slug, position, valid_moves, new_position) ==
    IF ~DictHas(m.slugs, position) THEN [m EXCEPT !.error = TRUE]
    ELSE LET found == get_tile(m, new_position).weapon
             moved == IF found # None /\ new_position # position
                        THEN equip(DictGet(m.slugs, position), found)
                        ELSE DictGet(m.slugs, position)
         IN  [m EXCEPT
                !.slugs = DictSet(DictDel(@, position), new_position, moved),
                !.tiles[new_position[1]][new_position[2]] =
                    IF new_position # position THEN remove_weapon(@) ELSE @,
                !.moves = Append(@, [id |-> slug.id, from |-> position,
                                     valid_moves |-> valid_moves, to |-> new_position])]

Relocate(m, slug, position, valid_moves, new_position) ==
    IF ~DictHas(m.slugs, position) THEN [m EXCEPT !.error = TRUE]
    ELSE [m EXCEPT
            !.slugs = DictSet(DictDel(@, position), new_position, DictGet(@, position)),
            !.moves = Append(@, [id |-> slug.id, from |-> position,
                                 valid_moves |-> valid_moves, to |-> new_position])]

\* Body of the loop `for position, slug in list(self._slugs.items())` that
\* moves the slugs.
MoveSlug(m, position, slug) ==
    IF ~can_move(slug) THEN m
    ELSE IF ~Located(m, slug) THEN [m EXCEPT !.error = TRUE]
    ELSE IF get_valid_slug_positions(m, slug) = << >> THEN m
    ELSE Relocate(m, slug, position, get_valid_slug_positions(m, slug),
                  choose_move(slug, get_valid_slug_positions(m, slug), position,
                              m.player_position))

\* Variant of the movement loop in which every slug's candidates are
\* computed from the roster as it stood when the loop began (m0).
RECURSIVE MoveSlugsStale(_, _, _)
MoveSlugsStale(m, snapshot, m0) ==
    IF snapshot = << >> \/ m.error THEN m
    ELSE LET position == Head(snapshot).key
             slug == Head(snapshot).value
             valid_moves == get_valid_slug_positions(m0, slug)
         IN  MoveSlugsStale(
                 IF ~can_move(slug) \/ valid_moves = << >> THEN m
                 ELSE Relocate(m, slug, position, valid_moves,
                               choose_move(slug, valid_moves, position,
                                           m.player_position)),
                 Tail(snapshot), m0)

MoveSlugsLoop_Stale(m, snapshot) == MoveSlugsStale(m, snapshot, m)

RECURSIVE MoveSlugsLoop(_, _)
MoveSlugsLoop(m, snapshot) ==
    IF snapshot = << >> \/ m.error THEN m
    ELSE MoveSlugsLoop(MoveSlug(m, Head(snapshot).key, Current(m, Head(snapshot).value)),
                       Tail(snapshot))

EndTurnMoveSlugs(m) == MoveSlugsLoop(m, m.slugs)

\* for position, slug in self._slugs.items(): self.perform_attack(slug, position)
RECURSIVE SlugAttacksLoop(_, _)
SlugAttacksLoop(m, items) ==
    IF items = << >> \/ m.error THEN m
    ELSE SlugAttacksLoop(perform_attack(m, Head(items).value, Head(items).key), Tail(items))

\* Variant in which the player takes a poison-decay step after the slugs'
\* attacks.
EndTurnSlugAttacks_ThenDecay(m) == EndTurnPlayerPoison(SlugAttacksLoop(m, m.slugs))

EndTurnSlugAttacks(m) == SlugAttacksLoop(m, m.slugs)

\* Variant of end_turn that forgets the final loop calling slug.end_turn().
EndTurnToggle_Forgotten(m) == m

\* for slug in self._slugs.values(): slug.end_turn()
EndTurnToggle(m) ==
    IF m.error THEN m
    ELSE [m EXCEPT !.slugs = [i \in 1..Len(m.slugs) |->
                                 [key |-> m.slugs[i].key,
                                  value |-> slug_end_turn(m.slugs[i].value)]]]

\* Variant of end_turn that moves the slugs before the slug poison pass.
end_turn_phases_MoveFirst(m) ==
    LET a == EndTurnPlayerPoison(m)
        c == EndTurnMoveSlugs(a)
        b == EndTurnSlugPoison(c)
        d == EndTurnSlugAttacks(b)
        e == EndTurnToggle(d)
    IN  [player_poison |-> a, slug_poison |-> b, movement |-> c,
         slug_attacks |-> d, toggle |-> e]

end_turn_phases(m) ==
    LET a == EndTurnPlayerPoison(m)
        b == EndTurnSlugPoison(a)
        c == EndTurnMoveSlugs(b)
        d == EndTurnSlugAttacks(c)
        e == EndTurnToggle(d)
    IN  [player_poison |-> a, slug_poison |-> b, movement |-> c,
         slug_attacks |-> d, toggle |-> e]

end_turn(m) == end_turn_phases(m).toggle

(***************************************************************************)
(* handle_player_move                                                      *)
(***************************************************************************)
NewPosition(m, position_delta) ==
    <<m.player_position[1] + position_delta[1], m.player_position[2] + position_delta[2]>>

\* Variant of the validity gate that forgets the `new_position not in
\* self._slugs` test.
MoveIsValid_NoEnemyTest(m, new_position) ==
    /\ InBounds(m.tiles, new_position)
    /\ ~get_tile(m, new_position).is_blocking

\* Variant of the gate that also refuses the move of a player without health.
MoveIsValid_AliveOnly(m, new_position) ==
    /\ is_alive(m.player)
    /\ InBounds(m.tiles, new_position)
    /\ ~get_tile(m, new_position).is_blocking
    /\ ~DictHas(m.slugs, new_position)

\* The two nested `if`s that gate the move.
MoveIsValid(m, new_position) ==
    /\ InBounds(m.tiles, new_position)
    /\ ~get_tile(m, new_position).is_blocking
    /\ ~DictHas(m.slugs, new_position)

\* self._player_position = new_position
Commit(m, new_position) == [m EXCEPT !.player_position = new_position, !.moves = << >>]

\* Variant of Pickup that equips the weapon and leaves it on the tile.
Pickup_NoRemove(m, new_position) ==
    IF get_tile(m, new_position).weapon # None
      THEN [m EXCEPT !.player = equip(@, get_tile(m, new_position).weapon)]
      ELSE m

\* if tile.get_weapon() is not None: equip it and remove it from the tile
Pickup(m, new_position) ==
    IF get_tile(m, new_position).weapon # None
      THEN [m EXCEPT
              !.player = equip(@, get_tile(m, new_position).weapon),
              !.tiles[new_position[1]][new_position[2]] = remove_weapon(@)]
      ELSE m

\* A call that returns at the validity gate (and the time before any call):
\* no phase runs.
NoPhases(m) ==
    [accepted |-> FALSE, pre |-> m, commit |-> m, pickup |-> m, attack |-> m,
     player_poison |-> m, slug_poison |-> m, movement |-> m,
     slug_attacks |-> m, done |-> m]

\* Every intermediate model value of one call, in program order.
Phases(m, position_delta) ==
    LET new_position == NewPosition(m, position_delta)
        accepted     == MoveIsValid(m, new_position)
        a == Commit(m, new_position)
        b == Pickup(a, new_position)
        c == perform_attack(b, b.player, new_position)
        e == end_turn_phases(c)
    IN  IF accepted
          THEN [accepted |-> TRUE, pre |-> m, commit |-> a, pickup |-> b, attack |-> c,
                player_poison |-> e.player_poison, slug_poison |-> e.slug_poison,
                movement |-> e.movement, slug_attacks |-> e.slug_attacks,
                done |-> e.toggle]
          ELSE NoPhases(m)

handle_player_move(m, position_delta) == Phases(m, position_delta).done

\* Variant of has_won that forgets the loop over the slugs.
has_won_GoalOnly(m) == get_tile(m, m.player_position).symbol = GOAL_TILE

\* has_won: False as soon as a slug of the dictionary is alive, else whether
\* the player's tile is the goal tile.
has_won(m) ==
    IF \E i \in 1..Len(m.slugs) : is_alive(m.slugs[i].value) THEN FALSE
    ELSE get_tile(m, m.player_position).symbol = GOAL_TILE

has_lost(m) == ~is_alive(m.player)

(***************************************************************************)
(* Levels: the tiles, slugs, player and start position handed to the       *)
(* constructor.                                                            *)
(***************************************************************************)
\* Tile(symbol, symbol is the wall) for every symbol of a grid of rows.
Grid(rows) ==
    [r \in 0..(Len(rows) - 1) |->
        [c \in 0..(Len(rows[1]) - 1) |->
            Tile(rows[r + 1][c + 1], rows[r + 1][c + 1] = WALL_TILE)]]

Entry(position, slug) == [key |-> position, value |-> slug]

\* The script at the end of the source file, up to (not including) its move.
DemoLevel ==
    LET t == Grid(<< <<"#", "#", "#", "#", "#", "#">>,
                     <<"#", " ", " ", " ", "#", "#">>,
                     <<"#", " ", " ", "#", " ", "#">>,
                     <<"#", "#", " ", "#", "#", "#">>,
                     <<"#", "G", " ", "#", "#", "#">>,
                     <<"#", "#", "#", "#", "#", "#">> >>)
        s == << Entry(<<1, 3>>, ScaredSlug(1)),
                Entry(<<2, 1>>, NiceSlug(2)),
                Entry(<<2, 2>>, AngrySlug(3)),
                Entry(<<2, 4>>, ScaredSlug(4)),
                Entry(<<4, 2>>, AngrySlug(5)) >>
        m == SlugDungeonModel(t, s, Player(25), <<1, 1>>)
    IN  [m EXCEPT
           !.tiles[1][2] = set_weapon(@, PoisonSword(6)),
           !.player = apply_effects(@, <<[kind |-> "poison", value |-> 1],
                                         [kind |-> "damage", value |-> 5]>>)]

\* ["###", "#P#", "#G#", "###"], max health 10, no slugs.
GoalLevel ==
    SlugDungeonModel(Grid(<< <<"#", "#", "#">>,
                             <<"#", " ", "#">>,
                             <<"#", "G", "#">>,
                             <<"#", "#", "#">> >>),
                     << >>, Player(10), <<1, 1>>)

\* A level with an open border, a dart to pick up, the goal next to it and
\* three slugs.
ArenaLevel ==
    LET t == Grid(<< <<"#", "#", "#", "#", "#", "#">>,
                     <<" ", " ", " ", " ", " ", "#">>,
                     <<"#", "G", " ", " ", " ", "#">>,
                     <<"#", "#", "#", "#", "#", "#">> >>)
        s == << Entry(<<1, 2>>, ScaredSlug(1)),
                Entry(<<1, 3>>, AngrySlug(2)),
                Entry(<<2, 2>>, NiceSlug(3)) >>
        m == SlugDungeonModel(t, s, Player(3), <<1, 0>>)
    IN  [m EXCEPT !.tiles[1][1] = set_weapon(@, PoisonDart(4))]

\* A walled corridor without any pickup: an unarmed player and two angry
\* slugs, one behind the other.
CorridorLevel ==
    SlugDungeonModel(Grid(<< <<"#", "#", "#", "#", "#", "#", "#">>,
                             <<"#", " ", " ", " ", " ", " ", "#">>,
                             <<"#", "#", "#", "#", "#", "#", "#">> >>),
                     << Entry(<<1, 4>>, AngrySlug(1)),
                        Entry(<<1, 5>>, AngrySlug(2)) >>,
                     Player(10), <<1, 1>>)

LevelNames == {"demo", "goal", "arena", "corridor"}

Level(name) ==
    IF name = "demo" THEN DemoLevel
    ELSE IF name = "goal" THEN GoalLevel
    ELSE IF name = "arena" THEN ArenaLevel
    ELSE CorridorLevel

\* position_delta: one step up, down, left or right.
Deltas == {<<-1, 0>>, <<1, 0>>, <<0, -1>>, <<0, 1>>}

\* Bound on the has_won / has_lost calls explored between two moves.
MaxQueries == 2

(***************************************************************************)
(* The state machine                                                       *)
(***************************************************************************)
\* The model object as the variables hold it.
Model ==
    SlugDungeonModel(tiles, slugs, player, player_position)

\* The dictionary the caller passed to the constructor: __init__ stores the
\* reference (self._slugs = slugs, self._activeslugs = slugs) and copies
\* nothing, so the caller's name denotes the model's dictionary.
CallerSlugs == slugs

NoQuery == [op |-> "none", ret |-> FALSE, n |-> 0]

Init ==
    /\ level \in LevelNames
    /\ tiles = Level(level).tiles
    /\ slugs = Level(level).slugs
    /\ player = Level(level).player
    /\ player_position = Level(level).player_position
    /\ turns = 0
    /\ last = [called |-> FALSE, delta |-> <<0, 0>>,
               phases |-> NoPhases(Level(level)),
               query |-> NoQuery]

HandlePlayerMove(position_delta) ==
    /\ turns < MaxTurns
    /\ LET ph == Phases(Model, position_delta)
       IN  /\ tiles' = ph.done.tiles
           /\ slugs' = ph.done.slugs
           /\ player' = ph.done.player
           /\ player_position' = ph.done.player_position
           /\ turns' = IF ph.accepted THEN turns + 1 ELSE turns
           /\ last' = [called |-> TRUE, delta |-> position_delta, phases |-> ph,
                       query |-> NoQuery]
    /\ UNCHANGED level

HasWon ==
    /\ last.query.n < MaxQueries
    /\ last' = [last EXCEPT !.query = [op |-> "has_won", ret |-> has_won(Model),
                                       n |-> last.query.n + 1]]
    /\ UNCHANGED <<level, tiles, slugs, player, player_position, turns>>

HasLost ==
    /\ last.query.n < MaxQueries
    /\ last' = [last EXCEPT !.query = [op |-> "has_lost", ret |-> has_lost(Model),
                                       n |-> last.query.n + 1]]
    /\ UNCHANGED <<level, tiles, slugs, player, player_position, turns>>

Next ==
    \/ \E position_delta \in Deltas : HandlePlayerMove(position_delta)
    \/ HasWon
    \/ HasLost

Spec == Init /\ [][Next]_vars

(***************************************************************************)
(* Direct calls of Slug.choose_move.  The one slug of `slugs` is the       *)
(* receiver, its key the current_position argument, `player_position` the  *)
(* player_position argument and `last.coordinates` the candidate list; the *)
(* arguments are arbitrary, as the method is public and checks nothing.    *)
(***************************************************************************)
\* Bounds of the argument space: rows 0..MaxRow, columns 0..MaxCol, and
\* candidate lists of at most MaxCandidates positions (repeats allowed).
MaxRow == 2
MaxCol == 1
MaxCandidates == 2

Positions == (0..MaxRow) \X (0..MaxCol)

SeqsUpTo(S, n) == UNION {[1..k -> S] : k \in 0..n}

SlugKinds == {NiceSlug(1), AngrySlug(1), ScaredSlug(1)}

ChooseMoveInit ==
    /\ level = "goal"
    /\ tiles = GoalLevel.tiles
    /\ player = GoalLevel.player
    /\ turns = 0
    /\ \E slug \in SlugKinds, current_position \in Positions :
          slugs = <<Entry(current_position, slug)>>
    /\ player_position \in Positions
    /\ \E coordinates \in SeqsUpTo(Positions, MaxCandidates) :
          last = [called |-> FALSE, coordinates |-> coordinates, ret |-> <<0, 0>>]

ChooseMoveCall ==
    /\ ~last.called
    /\ last' = [last EXCEPT
                  !.called = TRUE,
                  !.ret = choose_move(slugs[1].value, last.coordinates,
                                      slugs[1].key, player_position)]
    /\ UNCHANGED <<level, tiles, slugs, player, player_position, turns>>

SpecChooseMove == ChooseMoveInit /\ [][ChooseMoveCall]_vars

(***************************************************************************)
(* Successive Entity.apply_poison calls on one entity that receives no     *)
(* effect in between.  `player` is the entity, `turns` the number of calls *)
(* made so far, `last` the health and poison it started with.              *)
(***************************************************************************)
\* Bounds: starting health 0..MaxHealth, starting poison 0..MaxPoison, and at
\* most MaxCalls calls.
MaxHealth == 8
MaxPoison == 3
MaxCalls == 5

ApplyPoisonInit ==
    /\ level = "goal"
    /\ tiles = GoalLevel.tiles
    /\ slugs = << >>
    /\ player_position = GoalLevel.player_position
    /\ turns = 0
    /\ \E health \in 0..MaxHealth, poison \in 0..MaxPoison :
          /\ player = [Entity(MaxHealth) EXCEPT !.health = health, !.poison = poison]
          /\ last = [health |-> health, poison |-> poison]

ApplyPoisonCall ==
    /\ turns < MaxCalls
    /\ player' = apply_poison(player)
    /\ turns' = turns + 1
    /\ UNCHANGED <<level, tiles, slugs, player_position, last>>

SpecApplyPoison == ApplyPoisonInit /\ [][ApplyPoisonCall]_vars

(***************************************************************************)
(* Direct calls of Weapon.get_targets and Entity.get_weapon_targets.       *)
(* `player` is the entity, armed with a weapon of some range or unarmed,   *)
(* and `player_position` the position argument.                            *)
(***************************************************************************)
\* Bounds: weapon ranges 0..MaxRange, origins with both indices in
\* -MaxOrigin..MaxOrigin.
MaxRange == 3
MaxOrigin == 2

\* A Weapon whose _range is range (the base class sets 0, subclasses 1 or 2).
Weapon(range) ==
    [name |-> "AbstractWeapon", effect |-> << >>, range |-> range, wid |-> 1]

GetTargetsInit ==
    /\ level = "goal"
    /\ tiles = GoalLevel.tiles
    /\ slugs = << >>
    /\ turns = 0
    /\ \E weapon \in {None} \cup {Weapon(range) : range \in 0..MaxRange} :
          player = equip(Player(1), weapon)
    /\ player_position \in (-MaxOrigin..MaxOrigin) \X (-MaxOrigin..MaxOrigin)
    /\ last = [called |-> FALSE, op |-> "none", ret |-> << >>]

GetTargetsCall ==
    /\ ~last.called
    /\ player.weapon # None
    /\ last' = [called |-> TRUE, op |-> "get_targets",
                ret |-> get_targets(player.weapon, player_position)]
    /\ UNCHANGED <<level, tiles, slugs, player, player_position, turns>>

GetWeaponTargetsCall ==
    /\ ~last.called
    /\ last' = [called |-> TRUE, op |-> "get_weapon_targets",
                ret |-> get_weapon_targets(player, player_position)]
    /\ UNCHANGED <<level, tiles, slugs, player, player_position, turns>>

GetTargetsNext == GetTargetsCall \/ GetWeaponTargetsCall

SpecGetTargets == GetTargetsInit /\ [][GetTargetsNext]_vars

(***************************************************************************)
(* SlugDungeonModel.__init__ called on arbitrary arguments.  Before the    *)
(* call the variables hold the arguments; the constructor stores them as   *)
(* they are.  `last.error` records whether the call raised.                *)
(***************************************************************************)
\* Bound: argument positions lie up to MaxMargin rows or columns outside the
\* grid.
MaxMargin == 1

ArgumentPositions ==
    ((0 - MaxMargin)..(NumRows(GoalLevel.tiles) - 1 + MaxMargin))
      \X ((0 - MaxMargin)..(NumCols(GoalLevel.tiles) - 1 + MaxMargin))

ConstructInit ==
    /\ level = "goal"
    /\ tiles = GoalLevel.tiles
    /\ \E position \in ArgumentPositions : slugs = <<Entry(position, AngrySlug(1))>>
    /\ player = GoalLevel.player
    /\ player_position \in ArgumentPositions
    /\ turns = 0
    /\ last = [constructed |-> FALSE, error |-> FALSE]

Construct ==
    /\ ~last.constructed
    /\ LET m == SlugDungeonModel(tiles, slugs, player, player_position)
       IN  /\ tiles' = m.tiles
           /\ slugs' = m.slugs
           /\ player' = m.player
           /\ player_position' = m.player_position
           /\ last' = [constructed |-> TRUE, error |-> m.error]
    /\ UNCHANGED <<level, turns>>

SpecConstruct == ConstructInit /\ [][Construct]_vars

(***************************************************************************)
(* Vocabulary of the properties.  `last.phases` is the record of the most  *)
(* recent handle_player_move call; has_won / has_lost calls leave it alone.*)
(***************************************************************************)
Ph == last.phases

Accepted == last.called /\ Ph.accepted

Ids(d) == {d[i].value.id : i \in 1..Len(d)}

EntryOf(d, id) == d[CHOOSE i \in 1..Len(d) : d[i].value.id = id]

\* The positions 1..range steps away along one axis.
OnAxisWithin(origin, range, p) ==
    \/ p[2] = origin[2] /\ p[1] # origin[1]
         /\ p[1] - origin[1] <= range /\ origin[1] - p[1] <= range
    \/ p[1] = origin[1] /\ p[2] # origin[2]
         /\ p[2] - origin[2] <= range /\ origin[2] - p[2] <= range

\* The magnitude a weapon carries for one effect kind (0 when it has none).
Magnitude(weapon, kind) ==
    IF \E i \in 1..Len(weapon.effect) : weapon.effect[i].kind = kind
      THEN weapon.effect[CHOOSE i \in 1..Len(weapon.effect) : weapon.effect[i].kind = kind].value
      ELSE 0

\* Health and poison after one poison-decay step.
DecayedHealth(h, p) == IF p > 0 THEN (IF h - p < 0 THEN 0 ELSE h - p) ELSE h
DecayedPoison(p) == IF p > 0 THEN p - 1 ELSE 0

SameState(m) ==
    /\ tiles = m.tiles
    /\ slugs = m.slugs
    /\ player = m.player
    /\ player_position = m.player_position

(***************************************************************************)
(* C1  A rejected move changes nothing: when the destination of the last   *)
(* call was out of bounds, blocking or held by an enemy, the tiles, the    *)
(* slug dictionary (positions, health, poison, can_move), the player and   *)
(* the player's position are what they were before the call.               *)
(***************************************************************************)
C1_Dest == <<Ph.pre.player_position[1] + last.delta[1],
             Ph.pre.player_position[2] + last.delta[2]>>

C1_OutOfBounds ==
    ~(C1_Dest[1] \in DOMAIN Ph.pre.tiles /\ C1_Dest[2] \in DOMAIN Ph.pre.tiles[0])

C1_Blocking ==
    ~C1_OutOfBounds /\ Ph.pre.tiles[C1_Dest[1]][C1_Dest[2]].is_blocking

C1_EnemyHeld ==
    \E i \in 1..Len(Ph.pre.slugs) : Ph.pre.slugs[i].key = C1_Dest

C1_RejectedMoveChangesNothing ==
    (last.called /\ (C1_OutOfBounds \/ C1_Blocking \/ C1_EnemyHeld))
        => SameState(Ph.pre)

\* A move into an enemy, made after some accepted move.
C1_Witness ==
    last.called /\ C1_EnemyHeld /\ turns > 0

(***************************************************************************)
(* C2  The end-of-turn poison pass covers every enemy: each enemy in the   *)
(* dictionary when the pass starts has received exactly one decay step     *)
(* when it ends, and is gone, its weapon on its tile, if that leaves it    *)
(* with health 0.                                                          *)
(***************************************************************************)
C2_Decayed(e, after) ==
    IF DecayedHealth(e.value.health, e.value.poison) = 0
      THEN /\ e.value.id \notin Ids(after.slugs)
           /\ after.tiles[e.key[1]][e.key[2]].weapon = e.value.weapon
      ELSE /\ e.value.id \in Ids(after.slugs)
           /\ EntryOf(after.slugs, e.value.id).key = e.key
           /\ EntryOf(after.slugs, e.value.id).value.health
                = DecayedHealth(e.value.health, e.value.poison)
           /\ EntryOf(after.slugs, e.value.id).value.poison
                = DecayedPoison(e.value.poison)

C2_PoisonPassCoversEveryEnemy ==
    Accepted =>
        \A i \in 1..Len(Ph.player_poison.slugs) :
            C2_Decayed(Ph.player_poison.slugs[i], Ph.slug_poison)

(***************************************************************************)
(* C3  The dictionary holds only live enemies: every slug in it has        *)
(* health > 0.                                                             *)
(***************************************************************************)
C3_RosterHoldsOnlyLiveEnemies ==
    \A i \in 1..Len(slugs) : slugs[i].value.health > 0

\* A call in which the player's attack killed one enemy, after an earlier
\* call had removed another.
C3_Witness ==
    /\ Accepted
    /\ Len(Ph.attack.slugs) < Len(Ph.pickup.slugs)
    /\ Len(Ph.pre.slugs) < Len(Level(level).slugs)

(***************************************************************************)
(* C4  Position invariants: no two enemies share a position, no enemy is   *)
(* on the player's position, and the player and every enemy stand on an    *)
(* in-bounds, non-blocking tile.                                           *)
(***************************************************************************)
C4_OnOpenTile(p) ==
    /\ p[1] \in DOMAIN tiles
    /\ p[2] \in DOMAIN tiles[0]
    /\ ~tiles[p[1]][p[2]].is_blocking

C4_PositionInvariants ==
    /\ \A i, j \in 1..Len(slugs) : i # j => slugs[i].key # slugs[j].key
    /\ \A i \in 1..Len(slugs) : slugs[i].key # player_position
    /\ C4_OnOpenTile(player_position)
    /\ \A i \in 1..Len(slugs) : C4_OnOpenTile(slugs[i].key)

\* A seeking slug chose its move while next to the player, and another enemy
\* relocated in the same call.
C4_Witness ==
    /\ Accepted
    /\ \E i \in 1..Len(Ph.movement.moves) :
          /\ EntryOf(Ph.done.slugs, Ph.movement.moves[i].id).value.name = "AngrySlug"
          /\ SquaredDistance(Ph.movement.moves[i].from, player_position) = 1
    /\ \E i \in 1..Len(Ph.movement.moves) :
          Ph.movement.moves[i].to # Ph.movement.moves[i].from

(***************************************************************************)
(* C5  Player attack step: on an accepted move with an armed player, every *)
(* enemy on a target position of the player's weapon (1..range steps along *)
(* an axis from the new position) receives the weapon's effect once and    *)
(* then one poison-decay step; if that leaves it with health 0 it is gone  *)
(* from the dictionary and its weapon lies on its tile; every other enemy  *)
(* is as it was.                                                           *)
(***************************************************************************)
C5_Weapon == Ph.pickup.player.weapon

C5_IsTarget(p) == OnAxisWithin(Ph.pickup.player_position, C5_Weapon.range, p)

\* Health after the weapon's effect, before the decay step.
C5_HealthAfterEffect(slug) ==
    LET healed == slug.health + Magnitude(C5_Weapon, "healing")
        capped == IF healed > slug.max_health THEN slug.max_health ELSE healed
        hurt   == capped - Magnitude(C5_Weapon, "damage")
    IN  IF hurt < 0 THEN 0 ELSE hurt

C5_PoisonAfterEffect(slug) == slug.poison + Magnitude(C5_Weapon, "poison")

C5_Hit(e) ==
    LET h == DecayedHealth(C5_HealthAfterEffect(e.value), C5_PoisonAfterEffect(e.value))
        p == DecayedPoison(C5_PoisonAfterEffect(e.value))
    IN  IF h = 0
          THEN /\ e.value.id \notin Ids(Ph.attack.slugs)
               /\ Ph.attack.tiles[e.key[1]][e.key[2]].weapon = e.value.weapon
          ELSE /\ e.value.id \in Ids(Ph.attack.slugs)
               /\ EntryOf(Ph.attack.slugs, e.value.id)
                    = [key |-> e.key,
                       value |-> [e.value EXCEPT !.health = h, !.poison = p]]

C5_Untouched(e) ==
    /\ e.value.id \in Ids(Ph.attack.slugs)
    /\ EntryOf(Ph.attack.slugs, e.value.id) = e

C5_PlayerAttackStep ==
    (Accepted /\ C5_Weapon # None) =>
        \A i \in 1..Len(Ph.pickup.slugs) :
            IF C5_IsTarget(Ph.pickup.slugs[i].key)
              THEN C5_Hit(Ph.pickup.slugs[i])
              ELSE C5_Untouched(Ph.pickup.slugs[i])

\* One attack that kills an enemy, wounds another and leaves a third alone.
C5_Witness ==
    /\ Accepted /\ C5_Weapon # None
    /\ \E i \in 1..Len(Ph.pickup.slugs) :
          /\ C5_IsTarget(Ph.pickup.slugs[i].key)
          /\ Ph.pickup.slugs[i].value.id \notin Ids(Ph.attack.slugs)
    /\ \E i \in 1..Len(Ph.pickup.slugs) :
          /\ C5_IsTarget(Ph.pickup.slugs[i].key)
          /\ Ph.pickup.slugs[i].value.id \in Ids(Ph.attack.slugs)
    /\ \E i \in 1..Len(Ph.pickup.slugs) : ~C5_IsTarget(Ph.pickup.slugs[i].key)

(***************************************************************************)
(* C6  Enemy attack step: after the movement, each enemy of the dictionary *)
(* applies its weapon's effect to the player once iff the player's         *)
(* position is a target of that weapon from the enemy's post-move          *)
(* position; the player's one poison-decay step of the call comes before   *)
(* these attacks, so the poison they add is still undecayed when the call  *)
(* returns.                                                                *)
(***************************************************************************)
C6_InRange(e) ==
    OnAxisWithin(e.key, e.value.weapon.range, Ph.movement.player_position)

\* The player's health after the attacks of the first n enemies, in
\* dictionary order.
RECURSIVE C6_HealthAfter(_)
C6_HealthAfter(n) ==
    IF n = 0 THEN Ph.movement.player.health
    ELSE LET e      == Ph.movement.slugs[n]
             h      == C6_HealthAfter(n - 1)
             healed == h + Magnitude(e.value.weapon, "healing")
             capped == IF healed > Ph.movement.player.max_health
                         THEN Ph.movement.player.max_health ELSE healed
             hurt   == capped - Magnitude(e.value.weapon, "damage")
         IN  IF ~C6_InRange(e) THEN h
             ELSE IF hurt < 0 THEN 0 ELSE hurt

RECURSIVE C6_PoisonAfter(_)
C6_PoisonAfter(n) ==
    IF n = 0 THEN Ph.movement.player.poison
    ELSE C6_PoisonAfter(n - 1)
           + (IF C6_InRange(Ph.movement.slugs[n])
                THEN Magnitude(Ph.movement.slugs[n].value.weapon, "poison") ELSE 0)

C6_EnemyAttackStep ==
    Accepted =>
        \* the decay step comes first, on the player as the player's attack left it
        /\ Ph.player_poison.player.health
             = DecayedHealth(Ph.attack.player.health, Ph.attack.player.poison)
        /\ Ph.player_poison.player.poison = DecayedPoison(Ph.attack.player.poison)
        /\ Ph.movement.player = Ph.player_poison.player
        \* then the attacks, from the post-move positions
        /\ Ph.slug_attacks.player.health = C6_HealthAfter(Len(Ph.movement.slugs))
        /\ Ph.slug_attacks.player.poison = C6_PoisonAfter(Len(Ph.movement.slugs))
        \* and nothing after them touches the player
        /\ player = Ph.slug_attacks.player

\* An enemy that was out of range before it moved attacks with poison from
\* its new position, and another enemy is out of range.
C6_Witness ==
    /\ Accepted
    /\ \E i \in 1..Len(Ph.movement.moves) :
          LET mv == Ph.movement.moves[i]
              e  == EntryOf(Ph.movement.slugs, mv.id)
          IN  /\ mv.to # mv.from
              /\ C6_InRange(e)
              /\ ~OnAxisWithin(mv.from, e.value.weapon.range, player_position)
              /\ Magnitude(e.value.weapon, "poison") > 0
    /\ \E i \in 1..Len(Ph.movement.slugs) : ~C6_InRange(Ph.movement.slugs[i])
    /\ player.poison > 0

(***************************************************************************)
(* C7  Fixed phase order inside one accepted call: commit, pickup, player  *)
(* attack, player decay, enemy poison pass, movement, enemy attacks,       *)
(* toggle, each seeing the dictionary as the previous ones left it.  An    *)
(* enemy removed by the player's attack or by the poison pass does not     *)
(* move and is not among the attackers, and the tile it stood on is free   *)
(* for the candidates of the movement phase of the same call.              *)
(***************************************************************************)
C7_Removed == Ids(Ph.pre.slugs) \ Ids(Ph.slug_poison.slugs)

C7_Movers == {Ph.movement.moves[k].id : k \in 1..Len(Ph.movement.moves)}

C7_TileWeapon(m, p) == m.tiles[p[1]][p[2]].weapon

C7_FixedPhaseOrder ==
    Accepted =>
        \* the pickup reads the tile of the committed position
        /\ Ph.pickup.player_position = C1_Dest
        /\ Ph.pickup.player.weapon =
             IF C7_TileWeapon(Ph.pre, C1_Dest) # None
               THEN C7_TileWeapon(Ph.pre, C1_Dest) ELSE Ph.pre.player.weapon
        \* the attack uses the weapon just picked up, from the new position
        /\ \A i \in 1..Len(Ph.pre.slugs) :
              (/\ Magnitude(Ph.pickup.player.weapon, "poison") > 0
               /\ OnAxisWithin(C1_Dest, Ph.pickup.player.weapon.range, Ph.pre.slugs[i].key))
                 => \/ Ph.pre.slugs[i].value.id \notin Ids(Ph.attack.slugs)
                    \/ EntryOf(Ph.attack.slugs, Ph.pre.slugs[i].value.id) # Ph.pre.slugs[i]
        \* a removed enemy neither moves nor is among the attackers
        /\ C7_Movers \cap C7_Removed = {}
        /\ Ids(Ph.movement.slugs) \cap C7_Removed = {}
        \* the movers are the survivors whose flag was set when the call began:
        \* the toggle comes last
        /\ C7_Movers = {id \in Ids(Ph.slug_poison.slugs) :
                           EntryOf(Ph.pre.slugs, id).value.can_move}
        \* the tile of a removed enemy is a candidate for a neighbour, unless an
        \* earlier mover of the same phase has taken it
        /\ \A k \in 1..Len(Ph.movement.moves) :
              \A id \in C7_Removed :
                 SquaredDistance(EntryOf(Ph.pre.slugs, id).key, Ph.movement.moves[k].from) = 1
                   => \/ InSeq(EntryOf(Ph.pre.slugs, id).key, Ph.movement.moves[k].valid_moves)
                      \/ \E j \in 1..(k - 1) :
                            Ph.movement.moves[j].to = EntryOf(Ph.pre.slugs, id).key

\* An enemy dies in the poison pass and a neighbour moves onto its tile in
\* the same call.
C7_Witness ==
    /\ Accepted
    /\ \E id \in Ids(Ph.player_poison.slugs) \ Ids(Ph.slug_poison.slugs) :
          \E k \in 1..Len(Ph.movement.moves) :
             /\ Ph.movement.moves[k].to = EntryOf(Ph.pre.slugs, id).key
             /\ Ph.movement.moves[k].from # Ph.movement.moves[k].to

(***************************************************************************)
(* C8  Move every other turn: every enemy starts with can_move true; each  *)
(* accepted call flips the flag of every enemy left in the dictionary      *)
(* once, moved or not; so no enemy changes position during an              *)
(* even-numbered accepted move.                                            *)
(***************************************************************************)
C8_MoveEveryOtherTurn ==
    /\ turns = 0 => \A i \in 1..Len(slugs) : slugs[i].value.can_move
    /\ \A i \in 1..Len(slugs) : slugs[i].value.can_move = (turns % 2 = 0)
    /\ Accepted =>
          \A i \in 1..Len(slugs) :
             slugs[i].value.can_move
               = ~EntryOf(Ph.pre.slugs, slugs[i].value.id).value.can_move
    /\ (Accepted /\ turns % 2 = 0) =>
          \A i \in 1..Len(slugs) :
             slugs[i].key = EntryOf(Ph.pre.slugs, slugs[i].value.id).key

\* An even-numbered accepted move during which a seeking slug that is not
\* next to the player stayed put, after it had moved in an earlier call.
C8_Witness ==
    /\ Accepted /\ turns > 0 /\ turns % 2 = 0
    /\ \E i \in 1..Len(slugs) :
          /\ slugs[i].value.name = "AngrySlug"
          /\ SquaredDistance(slugs[i].key, player_position) > 1
          /\ slugs[i].key # EntryOf(Level(level).slugs, slugs[i].value.id).key

(***************************************************************************)
(* C9  has_won() is true iff no enemy of the dictionary is alive and the   *)
(* player's tile is the goal tile; has_lost() is true iff the player's     *)
(* health is 0; neither changes the state, so a repeated call returns the  *)
(* same.  On ["###","#P#","#G#","###"] with max health 10, after one move  *)
(* down has_won() is true and has_lost() is false.                         *)
(***************************************************************************)
C9_WinLossPredicates ==
    /\ last.query.op = "has_won" =>
          last.query.ret
            = (/\ \A i \in 1..Len(slugs) : slugs[i].value.health <= 0
               /\ tiles[player_position[1]][player_position[2]].symbol = "G")
    /\ last.query.op = "has_lost" => last.query.ret = (player.health = 0)
    /\ SameState(Ph.done)
    /\ (level = "goal" /\ turns = 1 /\ last.query.op = "has_won") => last.query.ret
    /\ (level = "goal" /\ turns = 1 /\ last.query.op = "has_lost") => ~last.query.ret

\* The second of two has_won calls after the move down on the goal level.
C9_Witness ==
    /\ level = "goal" /\ turns = 1 /\ last.delta = <<1, 0>>
    /\ last.query = [op |-> "has_won", ret |-> TRUE, n |-> 2]

(***************************************************************************)
(* C10  Health and poison bounds: the player and every enemy have          *)
(* 0 <= health <= max_health and poison >= 0, in the state every call      *)
(* leaves and after every phase inside it.                                 *)
(***************************************************************************)
C10_Bounded(e) ==
    /\ 0 <= e.health
    /\ e.health <= e.max_health
    /\ e.poison >= 0

C10_AllBounded(m) ==
    /\ C10_Bounded(m.player)
    /\ \A i \in 1..Len(m.slugs) : C10_Bounded(m.slugs[i].value)

C10_HealthAndPoisonBounds ==
    /\ C10_Bounded(player)
    /\ \A i \in 1..Len(slugs) : C10_Bounded(slugs[i].value)
    /\ C10_AllBounded(Ph.pickup)
    /\ C10_AllBounded(Ph.attack)
    /\ C10_AllBounded(Ph.player_poison)
    /\ C10_AllBounded(Ph.slug_poison)
    /\ C10_AllBounded(Ph.movement)
    /\ C10_AllBounded(Ph.slug_attacks)

\* A healing that the cap cut short: the player ends the call at max_health.
C10_Witness ==
    /\ Accepted
    /\ \E i \in 1..Len(Ph.movement.slugs) :
          /\ C6_InRange(Ph.movement.slugs[i])
          /\ Magnitude(Ph.movement.slugs[i].value.weapon, "healing") > 0
          /\ C6_HealthAfter(i - 1) + Magnitude(Ph.movement.slugs[i].value.weapon, "healing")
               > player.max_health
    /\ player.health = player.max_health

(***************************************************************************)
(* C11  The script of the source file: the level starts with the player at *)
(* (1,1), health 20, poison 1, max health 25; after handle_player_move     *)
(* ((0,1)) the dictionary is exactly {(2,1): NiceSlug, (2,2): AngrySlug,   *)
(* (2,4): ScaredSlug, (3,2): AngrySlug}, the player's health is 17 and the *)
(* angry slug at (2,2) has health 2.                                       *)
(***************************************************************************)
C11_Roster == {<<slugs[i].key, slugs[i].value.name>> : i \in 1..Len(slugs)}

C11_DemoScenario ==
    /\ (level = "demo" /\ turns = 0) =>
          /\ player_position = <<1, 1>>
          /\ player.health = 20 /\ player.poison = 1 /\ player.max_health = 25
    /\ (level = "demo" /\ turns = 1 /\ Accepted /\ last.delta = <<0, 1>>) =>
          /\ Len(slugs) = 4
          /\ C11_Roster = { <<<<2, 1>>, "NiceSlug">>, <<<<2, 2>>, "AngrySlug">>,
                            <<<<2, 4>>, "ScaredSlug">>, <<<<3, 2>>, "AngrySlug">> }
          /\ player.health = 17
          /\ \A i \in 1..Len(slugs) :
                slugs[i].key = <<2, 2>> => slugs[i].value.health = 2

\* The state the script prints.
C11_Witness ==
    /\ level = "demo" /\ turns = 1 /\ Accepted /\ last.delta = <<0, 1>>
    /\ player_position = <<1, 2>>
    /\ Len(slugs) = 4

(***************************************************************************)
(* C12  The caller's slug dictionary is not modified by the model: it      *)
(* keeps the entries (same keys, same slugs) it had when it was passed to  *)
(* the constructor.                                                        *)
(***************************************************************************)
C12_CallerDictUnmodified ==
    /\ Len(CallerSlugs) = Len(Level(level).slugs)
    /\ \A i \in 1..Len(Level(level).slugs) :
          \E j \in 1..Len(CallerSlugs) :
             /\ CallerSlugs[j].key = Level(level).slugs[i].key
             /\ CallerSlugs[j].value.id = Level(level).slugs[i].value.id

(***************************************************************************)
(* C13  Candidate enumeration: for an enemy of the dictionary with         *)
(* can_move true, get_valid_slug_positions returns its position plus those *)
(* of its four orthogonal neighbours that are in bounds, non-blocking, not *)
(* held by another enemy and not the player's position, each once and      *)
(* nothing else; for an enemy with can_move false it returns the empty     *)
(* list, and the enemy is not relocated.                                   *)
(***************************************************************************)
C13_Expected(p) ==
    {p} \cup
    {q \in (DOMAIN tiles) \X (DOMAIN tiles[0]) :
        /\ SquaredDistance(p, q) = 1
        /\ ~tiles[q[1]][q[2]].is_blocking
        /\ \A j \in 1..Len(slugs) : slugs[j].key # q
        /\ q # player_position}

C13_SeqSet(r) == {r[i] : i \in 1..Len(r)}

C13_CandidateEnumeration ==
    /\ \A i \in 1..Len(slugs) :
          LET r == get_valid_slug_positions(Model, slugs[i].value)
          IN  IF slugs[i].value.can_move
                THEN /\ C13_SeqSet(r) = C13_Expected(slugs[i].key)
                     /\ Len(r) = Cardinality(C13_Expected(slugs[i].key))
                ELSE r = << >>
    /\ Accepted =>
          \A i \in 1..Len(Ph.slug_poison.slugs) :
             ~Ph.slug_poison.slugs[i].value.can_move
               => /\ Ph.slug_poison.slugs[i].value.id \in Ids(Ph.movement.slugs)
                  /\ EntryOf(Ph.movement.slugs, Ph.slug_poison.slugs[i].value.id).key
                       = Ph.slug_poison.slugs[i].key

\* An enemy that can move has the player on one side, another enemy on a
\* second and a wall on a third, and a free tile to go to.
C13_Witness ==
    \E i \in 1..Len(slugs) :
       /\ slugs[i].value.can_move
       /\ SquaredDistance(slugs[i].key, player_position) = 1
       /\ \E j \in 1..Len(slugs) : SquaredDistance(slugs[i].key, slugs[j].key) = 1
       /\ \E q \in (DOMAIN tiles) \X (DOMAIN tiles[0]) :
             SquaredDistance(slugs[i].key, q) = 1 /\ tiles[q[1]][q[2]].is_blocking
       /\ Len(get_valid_slug_positions(Model, slugs[i].value)) >= 2
       /\ turns > 0

(***************************************************************************)
(* C14  Movement policies                                                  *)
(***************************************************************************)
\* One pass over the candidates in list order, keeping the candidate held
\* so far unless the next one is strictly nearer (nearer = TRUE) or strictly
\* farther (nearer = FALSE) from the player.
RECURSIVE C14_Scan(_, _, _, _)
C14_Scan(coordinates, player_pos, best, nearer) ==
    IF coordinates = << >> THEN best
    ELSE LET c == Head(coordinates)
             better == IF nearer
                         THEN SquaredDistance(player_pos, c)
                                < SquaredDistance(player_pos, best)
                         ELSE SquaredDistance(player_pos, c)
                                > SquaredDistance(player_pos, best)
         IN  C14_Scan(Tail(coordinates), player_pos,
                      IF better THEN c ELSE best, nearer)

C14_Range(coordinates) == {coordinates[i] : i \in 1..Len(coordinates)}

\* C14: for every candidate list, current position and player position,
\* NiceSlug.choose_move returns the current position, AngrySlug.choose_move
\* the first candidate in list order at the least squared distance from the
\* player, ScaredSlug.choose_move the first candidate at the greatest squared
\* distance; with an empty list all three return the current position; and
\* the result is always the current position or a member of the list.
C14_MovementPolicies ==
    last.called =>
        LET slug == slugs[1].value
            current_position == slugs[1].key
            coordinates == last.coordinates
        IN  /\ slug.name = "NiceSlug" => last.ret = current_position
            /\ coordinates = << >> => last.ret = current_position
            /\ (slug.name = "AngrySlug" /\ coordinates # << >>) =>
                  last.ret = C14_Scan(Tail(coordinates), player_position,
                                      Head(coordinates), TRUE)
            /\ (slug.name = "ScaredSlug" /\ coordinates # << >>) =>
                  last.ret = C14_Scan(Tail(coordinates), player_position,
                                      Head(coordinates), FALSE)
            /\ last.ret \in {current_position} \cup C14_Range(coordinates)

\* An angry slug was offered two different candidates at the same distance
\* from the player, neither its own position, and took the first.
C14_Witness ==
    /\ last.called
    /\ slugs[1].value.name = "AngrySlug"
    /\ Len(last.coordinates) = 2
    /\ last.coordinates[1] # last.coordinates[2]
    /\ SquaredDistance(player_position, last.coordinates[1])
         = SquaredDistance(player_position, last.coordinates[2])
    /\ slugs[1].key \notin C14_Range(last.coordinates)
    /\ last.ret = last.coordinates[1]

(***************************************************************************)
(* C15  Weapon pickup                                                      *)
(***************************************************************************)
\* The weapon lying on the destination tile when the call began.
C15_Found == Ph.pre.tiles[C1_Dest[1]][C1_Dest[2]].weapon

C15_Held == Ph.pre.player.weapon

\* What the player's attack with weapon w does to entry e of the roster.
C15_Struck(e, w) ==
    LET healed == Min(e.value.max_health, e.value.health + Magnitude(w, "healing"))
        hurt   == Max(0, healed - Magnitude(w, "damage"))
        poison == e.value.poison + Magnitude(w, "poison")
        h == DecayedHealth(hurt, poison)
    IN  IF h = 0
          THEN e.value.id \notin Ids(Ph.attack.slugs)
          ELSE /\ e.value.id \in Ids(Ph.attack.slugs)
               /\ EntryOf(Ph.attack.slugs, e.value.id).value.health = h
               /\ EntryOf(Ph.attack.slugs, e.value.id).value.poison
                    = DecayedPoison(poison)

\* C15: on an accepted move onto a tile holding a weapon the player ends the
\* call holding exactly that weapon, the weapon held before is on no tile,
\* the tile's slot is empty, and the attack of the same call strikes the
\* enemies in the new weapon's range with the new weapon's effect; on an
\* accepted move onto a tile without a weapon the player's weapon is
\* unchanged.
C15_WeaponPickup ==
    Accepted =>
        IF C15_Found # None
          THEN /\ player.weapon = C15_Found
               /\ tiles[C1_Dest[1]][C1_Dest[2]].weapon = None
               /\ C15_Held # None =>
                     \A r \in DOMAIN tiles : \A c \in DOMAIN tiles[r] :
                         tiles[r][c].weapon.wid # C15_Held.wid
               /\ \A i \in 1..Len(Ph.pre.slugs) :
                     IF OnAxisWithin(C1_Dest, C15_Found.range, Ph.pre.slugs[i].key)
                       THEN C15_Struck(Ph.pre.slugs[i], C15_Found)
                       ELSE C5_Untouched(Ph.pre.slugs[i])
          ELSE player.weapon = C15_Held

\* The player, already armed, stepped onto a tile holding a different weapon
\* and struck an enemy with an outcome the weapon held before does not give.
C15_Witness ==
    /\ Accepted
    /\ C15_Found # None
    /\ C15_Held # None
    /\ C15_Held.name # C15_Found.name
    /\ \E i \in 1..Len(Ph.pre.slugs) :
          /\ OnAxisWithin(C1_Dest, C15_Found.range, Ph.pre.slugs[i].key)
          /\ ~C15_Struck(Ph.pre.slugs[i], C15_Held)

(***************************************************************************)
(* C16  Poison as decaying damage                                          *)
(***************************************************************************)
\* p + (p-1) + ... over m terms.
RECURSIVE C16_Sum(_, _)
C16_Sum(p, m) == IF m = 0 THEN 0 ELSE p + C16_Sum(p - 1, m - 1)

\* C16: an entity that starts with poison p >= 0 and health h and receives
\* no further effect has, after k successive apply_poison calls, poison
\* max(0, p-k) and health max(0, h - (p + (p-1) + ... + (p-min(k,p)+1))); over
\* the first p calls the damage is p(p+1)/2 when health allows, and calls
\* after the poison reached 0 change nothing.
C16_PoisonDecay ==
    LET p == last.poison
        h == last.health
        k == turns
    IN  /\ player.poison = Max(0, p - k)
        /\ player.health = Max(0, h - C16_Sum(p, Min(k, p)))
        /\ (k >= p /\ 2 * h >= p * (p + 1)) => 2 * (h - player.health) = p * (p + 1)

\* An entity with poison 3 and health above 6 after more than 3 calls: it
\* lost 6 health, its poison is 0 and it is alive.
C16_Witness ==
    /\ last.poison = 3
    /\ last.health > 6
    /\ turns > 3
    /\ player.poison = 0
    /\ player.health = last.health - 6

(***************************************************************************)
(* C17  Weapon targets                                                     *)
(***************************************************************************)
\* (row +- i, col) and (row, col +- i) for every i in 1..r.
C17_Cross(origin, r) ==
    UNION {{<<origin[1] + i, origin[2]>>, <<origin[1] - i, origin[2]>>,
            <<origin[1], origin[2] + i>>, <<origin[1], origin[2] - i>>}
           : i \in 1..r}

\* C17: for a weapon of range r >= 0 and any origin, get_targets returns
\* exactly 4r pairwise distinct positions, (row +- i, col) and (row, col +- i)
\* for every i in 1..r, none diagonal and none clipped; for r = 0 and for an
\* unarmed entity's get_weapon_targets the result is empty.
C17_WeaponTargets ==
    last.called =>
        LET r == IF player.weapon = None THEN 0 ELSE player.weapon.range
            returned == {last.ret[i] : i \in 1..Len(last.ret)}
        IN  /\ Len(last.ret) = 4 * r
            /\ Cardinality(returned) = 4 * r
            /\ returned = C17_Cross(player_position, r)
            /\ r = 0 => last.ret = << >>

\* get_targets of a weapon of range 2 or more from <<0, 0>>: positions with
\* a negative index are returned.
C17_Witness ==
    /\ last.called
    /\ last.op = "get_targets"
    /\ player.weapon.range >= 2
    /\ player_position = <<0, 0>>
    /\ Len(last.ret) = 4 * player.weapon.range
    /\ \E i \in 1..Len(last.ret) : last.ret[i] = <<-2, 0>>

(***************************************************************************)
(* C18  Fail-fast construction                                             *)
(***************************************************************************)
\* The arguments place the player and every enemy on an in-bounds,
\* non-blocking tile, and no enemy on the player's position.
C18_WellFormed ==
    /\ C4_OnOpenTile(player_position)
    /\ \A i \in 1..Len(slugs) :
          /\ C4_OnOpenTile(slugs[i].key)
          /\ slugs[i].key # player_position

\* C18: constructing the model from arguments with an enemy on the player's
\* position, or an enemy or the player on a blocking or out-of-bounds tile,
\* is rejected with an error at construction time.
C18_FailFastConstruction ==
    (last.constructed /\ ~C18_WellFormed) => last.error

(***************************************************************************)
(* C19  Roster accounting per accepted move                                *)
(***************************************************************************)
\* The enemies the player's attack brings to health 0: those in the range
\* of the weapon held after the pickup whose health, after the effect and
\* one decay step, is 0.
C19_KilledByAttack ==
    LET w == Ph.pickup.player.weapon
    IN  {Ph.pre.slugs[i].value.id : i \in
           {j \in 1..Len(Ph.pre.slugs) :
              LET e == Ph.pre.slugs[j].value
                  healed == Min(e.max_health, e.health + Magnitude(w, "healing"))
                  hurt   == Max(0, healed - Magnitude(w, "damage"))
              IN  /\ w # None
                  /\ OnAxisWithin(Ph.commit.player_position, w.range, Ph.pre.slugs[j].key)
                  /\ DecayedHealth(hurt, e.poison + Magnitude(w, "poison")) = 0}}

\* The enemies the poison pass brings to health 0: the pass stops at the
\* first enemy, in dictionary order, whose decay step leaves it no health.
C19_KilledByPoison ==
    LET d == Ph.attack.slugs
        dying == {j \in 1..Len(d) :
                    DecayedHealth(d[j].value.health, d[j].value.poison) = 0}
    IN  IF dying = {} THEN {}
        ELSE {d[CHOOSE j \in dying : \A k \in dying : j <= k].value.id}

\* C19: in an accepted move no enemy is added to the roster; the enemies
\* missing after the call are exactly those whose health reached 0 in the
\* player's attack or in the poison pass of that call; the movement phase
\* neither deletes nor overwrites an enemy; and every surviving enemy whose
\* can_move was false when the call began is where it was.
C19_RosterAccounting ==
    /\ Ids(slugs) \subseteq Ids(Level(level).slugs)
    /\ Cardinality(Ids(slugs)) = Len(slugs)
    /\ Accepted =>
          /\ Ids(slugs) \subseteq Ids(Ph.pre.slugs)
          /\ Ids(Ph.pre.slugs) \ Ids(slugs) = C19_KilledByAttack \cup C19_KilledByPoison
          /\ Ids(Ph.pre.slugs) \ Ids(Ph.attack.slugs) = C19_KilledByAttack
          /\ Ids(Ph.attack.slugs) \ Ids(Ph.slug_poison.slugs) = C19_KilledByPoison
          /\ Len(Ph.movement.slugs) = Len(Ph.slug_poison.slugs)
          /\ Ids(Ph.movement.slugs) = Ids(Ph.slug_poison.slugs)
          /\ Cardinality(DictKeys(Ph.movement.slugs)) = Len(Ph.movement.slugs)
          /\ \A i \in 1..Len(Ph.pre.slugs) :
                LET e == Ph.pre.slugs[i]
                IN  (~e.value.can_move /\ e.value.id \in Ids(slugs)) =>
                        EntryOf(slugs, e.value.id).key = e.key

\* One call in which the player's attack killed an enemy and a surviving
\* enemy moved to another position.
C19_Witness ==
    /\ Accepted
    /\ C19_KilledByAttack # {}
    /\ Ids(Ph.pre.slugs) \ Ids(slugs) = C19_KilledByAttack
    /\ \E k \in 1..Len(Ph.movement.moves) :
          /\ Ph.movement.moves[k].to # Ph.movement.moves[k].from
          /\ Ph.movement.moves[k].id \in Ids(slugs)
    /\ Len(Ph.movement.slugs) = Len(Ph.slug_poison.slugs)

(***************************************************************************)
(* C20  Tile frame                                                         *)
(***************************************************************************)
\* The enemies of the roster before the call that died in it, each with the
\* position it held (an enemy dies before the movement phase).
C20_Died ==
    {Ph.pre.slugs[i] : i \in {j \in 1..Len(Ph.pre.slugs) :
                                Ph.pre.slugs[j].value.id \notin Ids(slugs)}}

C20_SlotBefore(r, c) == Ph.pre.tiles[r][c].weapon

C20_SlotAfter(r, c) == tiles[r][c].weapon

\* C20: no tile's blocking flag or symbol ever changes; in one call a tile's
\* weapon slot is set to a dying enemy's weapon on the tile where the enemy
\* dies, is cleared on the tile the player steps onto in an accepted move,
\* and is unchanged on every other tile.
C20_TileFrame ==
    /\ \A r \in DOMAIN tiles : \A c \in DOMAIN tiles[r] :
          /\ tiles[r][c].symbol = Level(level).tiles[r][c].symbol
          /\ tiles[r][c].is_blocking = Level(level).tiles[r][c].is_blocking
    /\ last.called =>
          \A r \in DOMAIN tiles : \A c \in DOMAIN tiles[r] :
              IF \E e \in C20_Died : e.key = <<r, c>>
                THEN \E e \in C20_Died :
                        e.key = <<r, c>> /\ C20_SlotAfter(r, c) = e.value.weapon
              ELSE IF Accepted /\ player_position = <<r, c>>
                THEN C20_SlotAfter(r, c) = None
              ELSE C20_SlotAfter(r, c) = C20_SlotBefore(r, c)

\* One call cleared the slot of the tile the player stepped onto and set the
\* empty slot of the tile where an enemy died.
C20_Witness ==
    /\ Accepted
    /\ C20_SlotBefore(player_position[1], player_position[2]) # None
    /\ C20_SlotAfter(player_position[1], player_position[2]) = None
    /\ \E e \in C20_Died :
          /\ C20_SlotBefore(e.key[1], e.key[2]) = None
          /\ C20_SlotAfter(e.key[1], e.key[2]) = e.value.weapon

(***************************************************************************)
(* C21  Unarmed player attack is a no-op                                   *)
(***************************************************************************)
\* C21: on an accepted move where the player holds no weapon after the
\* pickup step, the attack step changes no enemy's health or poison, removes
\* no enemy and places no weapon on any tile; and no handle_player_move call
\* from a reachable state raises an error.
C21_UnarmedAttackIsNoOp ==
    /\ (Accepted /\ Ph.pickup.player.weapon = None) =>
          /\ Ph.attack.slugs = Ph.pre.slugs
          /\ Ph.attack.tiles = Ph.pickup.tiles
          /\ Ph.attack.player = Ph.pickup.player
    /\ last.called =>
          /\ ~Ph.attack.error
          /\ ~Ph.slug_poison.error
          /\ ~Ph.movement.error
          /\ ~Ph.slug_attacks.error
          /\ ~Ph.done.error

\* An unarmed player stepped next to an enemy: the attack step left the
\* roster as it was, and the end-of-turn phases changed the enemy.
C21_Witness ==
    /\ Accepted
    /\ Ph.pickup.player.weapon = None
    /\ \E i \in 1..Len(Ph.pre.slugs) :
          /\ SquaredDistance(Ph.pre.slugs[i].key, Ph.commit.player_position) = 1
          /\ EntryOf(slugs, Ph.pre.slugs[i].value.id) # Ph.pre.slugs[i]
    /\ Ph.attack.slugs = Ph.pre.slugs

(***************************************************************************)
(* C22  Enemy movement is sequential against the live roster               *)
(***************************************************************************)
\* The roster when the movement phase began, and the choose_move calls of
\* the phase in the order they were made.
C22_Before == Ph.slug_poison.slugs

C22_Moves == Ph.movement.moves

\* Where enemy id stands just before the k-th call: where its own earlier
\* call sent it, or else where it stood when the phase began.
C22_PositionAt(id, k) ==
    IF \E j \in 1..(k - 1) : C22_Moves[j].id = id
      THEN C22_Moves[CHOOSE j \in 1..(k - 1) : C22_Moves[j].id = id].to
      ELSE EntryOf(C22_Before, id).key

C22_OccupiedAt(k) == {C22_PositionAt(id, k) : id \in Ids(C22_Before)}

\* The candidates of the k-th call, from the roster as the earlier calls
\* left it.
C22_Candidates(k) ==
    LET from == C22_Moves[k].from
    IN  {from} \cup
        {q \in (DOMAIN tiles) \X (DOMAIN tiles[0]) :
            /\ SquaredDistance(from, q) = 1
            /\ ~tiles[q[1]][q[2]].is_blocking
            /\ q \notin C22_OccupiedAt(k)
            /\ q # Ph.movement.player_position}

\* C22: the movement phase processes the enemies that can move one at a
\* time in roster order, each exactly once; each one's candidates are those
\* of the roster as changed by the enemies that moved before it (a vacated
\* position is available, a taken one is not); and no two enemies choose the
\* same destination in one phase.
C22_SequentialMovement ==
    Accepted =>
        LET movers == SelectSeq(C22_Before, LAMBDA e : e.value.can_move)
        IN  /\ Len(C22_Moves) = Len(movers)
            /\ \A k \in 1..Len(C22_Moves) :
                  /\ k <= Len(movers)
                  /\ C22_Moves[k].id = movers[k].value.id
                  /\ C22_Moves[k].from = movers[k].key
                  /\ {C22_Moves[k].valid_moves[i] :
                         i \in 1..Len(C22_Moves[k].valid_moves)} = C22_Candidates(k)
                  /\ C22_Moves[k].to \in C22_Candidates(k)
                  /\ C22_Moves[k].id \in Ids(Ph.movement.slugs)
                  /\ \A i \in 1..Len(Ph.movement.slugs) :
                        Ph.movement.slugs[i].value.id = C22_Moves[k].id
                          => Ph.movement.slugs[i].key = C22_Moves[k].to
            /\ \A k, l \in 1..Len(C22_Moves) :
                  k # l => C22_Moves[k].to # C22_Moves[l].to

\* An enemy moved, and an enemy later in the roster took the position it
\* had left.
C22_Witness ==
    /\ Accepted
    /\ \E k, l \in 1..Len(C22_Moves) :
          /\ k < l
          /\ C22_Moves[k].to # C22_Moves[k].from
          /\ C22_Moves[l].to = C22_Moves[k].from

(***************************************************************************)
(* C23  Win and loss are not terminal                                      *)
(***************************************************************************)
\* has_lost() and has_won() as they would answer just before the call.
C23_LostBefore == Ph.pre.player.health = 0

C23_WonBefore ==
    /\ \A i \in 1..Len(Ph.pre.slugs) : Ph.pre.slugs[i].value.health <= 0
    /\ Ph.pre.tiles[Ph.pre.player_position[1]][Ph.pre.player_position[2]].symbol
         = GOAL_TILE

\* The destination is in bounds, not blocking and held by no enemy.
C23_Gate == ~C1_OutOfBounds /\ ~C1_Blocking /\ ~C1_EnemyHeld

\* The enemies that reach the player in the slug attack phase.
C23_Attackers ==
    {i \in 1..Len(Ph.movement.slugs) : C6_InRange(Ph.movement.slugs[i])}

C23_Heals(e) ==
    /\ Magnitude(e.value.weapon, "healing") > 0
    /\ Magnitude(e.value.weapon, "damage") = 0

\* C23: handle_player_move consults neither has_lost() nor has_won(): a call
\* is accepted exactly when its destination passes the gate, also when the
\* player's health is 0 or the game is won, and then resolves a full turn;
\* and has_lost() is not absorbing: an accepted move made without health
\* that puts the player in range of enemies holding a healing weapon, and
\* of no other, ends with has_lost() false.
C23_NotTerminal ==
    last.called =>
        /\ Ph.accepted = C23_Gate
        /\ (Ph.accepted /\ (C23_LostBefore \/ C23_WonBefore)) =>
              /\ player_position = C1_Dest
              /\ \A i \in 1..Len(slugs) :
                    slugs[i].value.can_move
                      = ~EntryOf(Ph.pre.slugs, slugs[i].value.id).value.can_move
        /\ (Ph.accepted /\ C23_LostBefore /\ C23_Attackers # {}
              /\ \A i \in C23_Attackers : C23_Heals(Ph.movement.slugs[i])) =>
              /\ player.health > 0
              /\ ~has_lost(Model)

\* has_lost() was true before an accepted move that put the player in range
\* of a healing enemy only, and is false after it.
C23_Witness ==
    /\ Accepted
    /\ C23_LostBefore
    /\ C23_Attackers # {}
    /\ \A i \in C23_Attackers : C23_Heals(Ph.movement.slugs[i])
    /\ ~has_lost(Model)

(***************************************************************************)
(* C24  Enemies and tile weapons                                           *)
(***************************************************************************)
\* Weapon w (by identity) is held by the player, by an enemy or by a tile.
C24_Exists(w) ==
    \/ player.weapon.wid = w.wid
    \/ \E i \in 1..Len(slugs) : slugs[i].value.weapon.wid = w.wid
    \/ \E r \in DOMAIN tiles : \E c \in DOMAIN tiles[r] : tiles[r][c].weapon.wid = w.wid

\* C24: an enemy that moves onto a tile holding a weapon neither picks it
\* up nor removes it: the movement phase changes no tile and no enemy's
\* weapon; and when an enemy dies on a tile that already holds a weapon, the
\* tile afterwards holds the dead enemy's weapon and the weapon it held
\* before is nowhere in the state.
C24_EnemiesAndTileWeapons ==
    Accepted =>
        /\ Ph.movement.tiles = Ph.slug_poison.tiles
        /\ \A k \in 1..Len(Ph.movement.moves) :
              LET mv == Ph.movement.moves[k]
              IN  /\ Ph.movement.tiles[mv.to[1]][mv.to[2]].weapon
                       = Ph.slug_poison.tiles[mv.to[1]][mv.to[2]].weapon
                  /\ mv.id \in Ids(Ph.movement.slugs)
                  /\ mv.id \in Ids(Ph.slug_poison.slugs)
                  /\ \A i \in 1..Len(Ph.movement.slugs) :
                      \A j \in 1..Len(Ph.slug_poison.slugs) :
                        (Ph.movement.slugs[i].value.id = mv.id
                           /\ Ph.slug_poison.slugs[j].value.id = mv.id)
                          => Ph.movement.slugs[i].value.weapon
                               = Ph.slug_poison.slugs[j].value.weapon
        /\ \A e \in C20_Died :
              C20_SlotBefore(e.key[1], e.key[2]) # None =>
                /\ C20_SlotAfter(e.key[1], e.key[2]) = e.value.weapon
                /\ ~C24_Exists(C20_SlotBefore(e.key[1], e.key[2]))

\* An enemy died on a tile that held another weapon - a tile it had moved
\* onto in an earlier call, without taking the weapon - and the tile now
\* holds the dead enemy's weapon.
C24_Witness ==
    /\ Accepted
    /\ \E e \in C20_Died :
          /\ C20_SlotBefore(e.key[1], e.key[2]) # None
          /\ C20_SlotBefore(e.key[1], e.key[2]).wid # e.value.weapon.wid
          /\ e.key # EntryOf(Level(level).slugs, e.value.id).key
          /\ C20_SlotAfter(e.key[1], e.key[2]) = e.value.weapon

====
